---------------------------- MODULE Spec2Model ----------------------------
(***************************************************************************)
(* Model of src/src/tokenizer.rs: Tokenizer::new (pattern compilation),    *)
(* Tokenizer::next (single-step match) and Tokenizer::tokenize (full       *)
(* scan).                                                                  *)
(*                                                                         *)
(* Text is a sequence of characters; a character is a one-element string,  *)
(* except Snowman, which stands for U+2603 and is three bytes long in      *)
(* UTF-8.  Offsets are byte offsets, as in Rust's &str.                    *)
(*                                                                         *)
(* The regex crate is modelled by a parser (RegexNew) and a leftmost-first *)
(* backtracking matcher (Captures) for the subset of its syntax that the   *)
(* patterns below use: literals, \-escapes of punctuation, [..] classes,   *)
(* '.', '^', capturing groups, (?:..) groups, '|', and greedy '*' '+' '?'. *)
(***************************************************************************)
EXTENDS Integers, Sequences, FiniteSets, TLC

\* ------------------------------------------------------------------ text

Snowman == "U+2603"

\* Longest source text, in characters.
MaxLen == 3

\* Most spans (tokens and skipped ignore matches) one call may record.
MaxSpans == 4

SourceChars == {"a", "+", " ", Snowman}

\* CharLen counting every character as one: codepoints, not bytes.
CharLenOne(c) == 1

\* len_utf8 of one character.
CharLen(c) == IF c = Snowman THEN 3 ELSE 1

RECURSIVE ByteLen(_)
\* str::len: the length of a text in bytes.
ByteLen(s) == IF s = <<>> THEN 0 ELSE CharLen(Head(s)) + ByteLen(Tail(s))

\* The byte offsets at which a character of s starts, and the end of s.
CharBoundaries(s) == {ByteLen(SubSeq(s, 1, k)) : k \in 0..Len(s)}

\* str::is_char_boundary, the check behind &source[offset..].
IsCharBoundary(s, offset) == offset \in CharBoundaries(s)

\* SliceFrom without the offset: the whole of s.
SliceWhole(s, offset) == s

\* &source[offset..] for an offset that is a character boundary.
SliceFrom(s, offset) ==
    LET k == CHOOSE j \in 0..Len(s) : ByteLen(SubSeq(s, 1, j)) = offset
    IN  SubSeq(s, k + 1, Len(s))

\* &source[start..end] for two character boundaries.
Slice(s, start, end) ==
    LET a == CHOOSE j \in 0..Len(s) : ByteLen(SubSeq(s, 1, j)) = start
        b == CHOOSE j \in 0..Len(s) : ByteLen(SubSeq(s, 1, j)) = end
    IN  SubSeq(s, a + 1, b)

\* ------------------------------------------------- regex crate: escape

\* The characters regex::escape puts a backslash before.
MetaChars ==
    {"\\", ".", "+", "*", "?", "(", ")", "|", "[", "]", "{", "}", "^", "$",
     "#", "&", "-", "~"}

\* Escape leaving every character as it is.
EscapeNothing(t) == t

RECURSIVE Escape(_)
\* regex::escape(t)
Escape(t) ==
    IF t = <<>> THEN <<>>
    ELSE (IF Head(t) \in MetaChars THEN <<"\\", Head(t)>> ELSE <<Head(t)>>)
         \o Escape(Tail(t))

\* --------------------------------------------------- build_regex_string

RECURSIVE Alternatives(_, _)
\* The for loop of build_regex_string: "|(p)" for each token type, p being
\* the override when patterns has one and the escaped name otherwise.
Alternatives(patterns, token_types) ==
    IF token_types = <<>> THEN <<>>
    ELSE LET t == Head(token_types)
             p == IF t \in DOMAIN patterns THEN patterns[t] ELSE Escape(t)
         IN  <<"|", "(">> \o p \o <<")">>
             \o Alternatives(patterns, Tail(token_types))

\* build_regex_string(ignore, patterns, token_types); write! to a String
\* cannot fail, so the result is always Ok.
BuildRegexString(ignore, patterns, token_types) ==
    <<"^", "(", "?", ":">> \o <<"(">> \o ignore \o <<")">>
    \o Alternatives(patterns, token_types) \o <<")">>

\* ------------------------------------------------ regex crate: the parser

\* A parse result: the expression read from position pos on, the position
\* after it and the index the next capturing group gets; ok is FALSE for a
\* syntax error.
Parsed(node, pos, groups) ==
    [ok |-> TRUE, node |-> node, pos |-> pos, groups |-> groups]

ParseError(pos, groups) ==
    [ok |-> FALSE, node |-> <<"empty">>, pos |-> pos, groups |-> groups]

\* The position of the first "]" at or after i, or 0.
ClassEnd(s, i) ==
    IF \E j \in i..Len(s) : s[j] = "]"
    THEN CHOOSE j \in i..Len(s) : s[j] = "]" /\ \A k \in i..(j - 1) : s[k] # "]"
    ELSE 0

RECURSIVE ParsePostfix(_, _, _, _)
\* The repetition operators that follow an atom.
ParsePostfix(s, node, pos, groups) ==
    IF pos <= Len(s) /\ s[pos] \in {"*", "+", "?"}
    THEN LET tag == CASE s[pos] = "*" -> "star"
                      [] s[pos] = "+" -> "plus"
                      [] OTHER -> "opt"
         IN  ParsePostfix(s, <<tag, node>>, pos + 1, groups)
    ELSE Parsed(node, pos, groups)

RECURSIVE ParseAlt(_, _, _)
RECURSIVE ParseConcat(_, _, _)
RECURSIVE ParseAtom(_, _, _)

\* The ')' that ends a group whose inside parsed as r; index is the group's
\* capture index, 0 for a (?:..) group.
CloseGroup(s, index, r) ==
    IF r.ok /\ r.pos <= Len(s) /\ s[r.pos] = ")"
    THEN Parsed(IF index = 0 THEN r.node ELSE <<"group", index, r.node>>,
                r.pos + 1, r.groups)
    ELSE ParseError(r.pos, r.groups)

\* One atom at position i <= Len(s): a literal, an escape, a class, '.',
\* '^' or a group.  A repetition operator with nothing to repeat, a ')' with
\* no group open, a dangling backslash and an unclosed class are errors.
ParseAtom(s, i, groups) ==
    CASE s[i] \in {"*", "+", "?", ")"} -> ParseError(i, groups)
      [] s[i] = "\\" ->
           IF i + 1 <= Len(s) /\ s[i + 1] \in MetaChars
           THEN Parsed(<<"lit", s[i + 1]>>, i + 2, groups)
           ELSE ParseError(i, groups)
      [] s[i] = "[" ->
           IF ClassEnd(s, i + 2) = 0 THEN ParseError(i, groups)
           ELSE Parsed(<<"class",
                         {s[k] : k \in (i + 1)..(ClassEnd(s, i + 2) - 1)}>>,
                       ClassEnd(s, i + 2) + 1, groups)
      [] s[i] = "." -> Parsed(<<"any">>, i + 1, groups)
      [] s[i] = "^" -> Parsed(<<"bol">>, i + 1, groups)
      [] s[i] = "(" ->
           IF i + 1 <= Len(s) /\ s[i + 1] = "?"
           THEN IF i + 2 <= Len(s) /\ s[i + 2] = ":"
                THEN CloseGroup(s, 0, ParseAlt(s, i + 3, groups))
                ELSE ParseError(i, groups)
           ELSE CloseGroup(s, groups, ParseAlt(s, i + 1, groups + 1))
      [] OTHER -> Parsed(<<"lit", s[i]>>, i + 1, groups)

\* r followed by rest, the remainder of the concatenation.
Concat(r, rest) ==
    IF ~rest.ok THEN rest
    ELSE IF rest.node = <<"empty">> THEN Parsed(r.node, rest.pos, rest.groups)
    ELSE Parsed(<<"cat", r.node, rest.node>>, rest.pos, rest.groups)

\* The remainder of a concatenation after its repeated atom r.
ConcatTail(s, r) == Concat(r, ParseConcat(s, r.pos, r.groups))

\* The remainder of a concatenation after its atom a.
ConcatRest(s, a) ==
    IF ~a.ok THEN a
    ELSE ConcatTail(s, ParsePostfix(s, a.node, a.pos, a.groups))

\* A concatenation: atoms with their repetition operators up to '|', ')' or
\* the end.
ParseConcat(s, i, groups) ==
    IF i > Len(s) \/ s[i] \in {"|", ")"}
    THEN Parsed(<<"empty">>, i, groups)
    ELSE ConcatRest(s, ParseAtom(s, i, groups))

\* The alternation of c and r.
Alt(c, r) ==
    IF ~r.ok THEN r
    ELSE Parsed(<<"alt", c.node, r.node>>, r.pos, r.groups)

\* The remainder of an alternation after its first concatenation c.
AltRest(s, c) ==
    IF ~c.ok THEN c
    ELSE IF c.pos <= Len(s) /\ s[c.pos] = "|"
         THEN Alt(c, ParseAlt(s, c.pos + 1, c.groups))
         ELSE c

\* An alternation of concatenations.
ParseAlt(s, i, groups) == AltRest(s, ParseConcat(s, i, groups))

\* The whole of re must be one alternation.
Compiled(re, r) ==
    IF r.ok /\ r.pos = Len(re) + 1
    THEN [ok |-> TRUE, node |-> r.node, groups |-> r.groups - 1]
    ELSE [ok |-> FALSE, node |-> <<"empty">>, groups |-> 0]

\* regex::Regex::new(re): the compiled expression with its number of
\* capturing groups, or an error for a pattern that is not valid.
RegexNew(re) == Compiled(re, ParseAlt(re, 1, 1))

\* ----------------------------------------------- regex crate: the matcher

\* No group has participated: what every capture is before a match.
NoCaptures(groups) == [g \in 1..groups |-> <<>>]

RECURSIVE Match(_, _, _, _)
RECURSIVE Then(_, _, _)

\* The matches of a capturing group from position i, given those of its
\* inside: each records the group's span.
Captured(inner, group, i) ==
    [k \in 1..Len(inner) |->
        <<inner[k][1], [inner[k][2] EXCEPT ![group] = <<i, inner[k][1]>>]>>]

\* The matches among results that end after position i.
Progress(results, i) == SelectSeq(results, LAMBDA r : r[1] > i)

\* Every way expression node matches hay from character position i on, as
\* <<position after the match, captures>>, in the order a leftmost-first
\* engine prefers them: the earlier alternative first, the longer repetition
\* first.
Match(node, hay, i, caps) ==
    CASE node[1] = "empty" -> << <<i, caps>> >>
      [] node[1] = "lit" ->
           IF i <= Len(hay) /\ hay[i] = node[2] THEN << <<i + 1, caps>> >>
           ELSE <<>>
      [] node[1] = "class" ->
           IF i <= Len(hay) /\ hay[i] \in node[2] THEN << <<i + 1, caps>> >>
           ELSE <<>>
      [] node[1] = "any" ->
           IF i <= Len(hay) THEN << <<i + 1, caps>> >> ELSE <<>>
      [] node[1] = "bol" ->
           IF i = 1 THEN << <<i, caps>> >> ELSE <<>>
      [] node[1] = "cat" -> Then(Match(node[2], hay, i, caps), node[3], hay)
      [] node[1] = "alt" ->
           Match(node[2], hay, i, caps) \o Match(node[3], hay, i, caps)
      [] node[1] = "star" ->
           Then(Progress(Match(node[2], hay, i, caps), i), node, hay)
           \o << <<i, caps>> >>
      [] node[1] = "plus" ->
           Then(Match(node[2], hay, i, caps), <<"star", node[2]>>, hay)
      [] node[1] = "opt" -> Match(node[2], hay, i, caps) \o << <<i, caps>> >>
      [] node[1] = "group" ->
           Captured(Match(node[3], hay, i, caps), node[2], i)

\* Each of results continued by a match of node, in order.
Then(results, node, hay) ==
    IF results = <<>> THEN <<>>
    ELSE Match(node, hay, Head(results)[1], Head(results)[2])
         \o Then(Tail(results), node, hay)

\* Byte offset of character position i of hay.
ByteOffset(hay, i) == ByteLen(SubSeq(hay, 1, i - 1))

\* Byte span of a capture c, <<>> for a group that did not participate.
ByteSpan(hay, c) ==
    IF c = <<>> THEN <<>> ELSE <<ByteOffset(hay, c[1]), ByteOffset(hay, c[2])>>

\* The match a search found: found is what matched from position start.
Found(regex, hay, start, found) ==
    [matched |-> TRUE,
     start |-> ByteOffset(hay, start),
     end |-> ByteOffset(hay, found[1][1]),
     groups |-> [g \in 1..regex.groups |-> ByteSpan(hay, found[1][2][g])]]

RECURSIVE Search(_, _, _)

\* The next start position of a search, when nothing matched from start.
SearchOn(regex, hay, start, found) ==
    IF found = <<>> THEN Search(regex, hay, start + 1)
    ELSE Found(regex, hay, start, found)

\* The search of regex.captures: the first match from the leftmost start
\* position that has one, offsets in bytes.
Search(regex, hay, start) ==
    IF start > Len(hay) + 1 THEN [matched |-> FALSE]
    ELSE SearchOn(regex, hay, start,
                  Match(regex.node, hay, start, NoCaptures(regex.groups)))

\* regex.captures(hay): the leftmost match in hay, with group 0 the whole
\* match [start, end) and groups[g] the byte span of capturing group g, or
\* <<>> for a group that did not participate; [matched |-> FALSE] for None.
Captures(regex, hay) == Search(regex, hay, 1)

\* ------------------------------------------------------- configurations

\* Token type names.
Id == <<"i", "d">>
A == <<"a">>
Plus == <<"+">>
Snow == <<"s", "n", "o", "w">>

\* Ignore patterns: "[ ]+", " *" (matches the empty string), "( )+" (has a
\* capturing group of its own), " | a" (its first alternative is a prefix of
\* its second) and "(" (not a valid pattern).
Ignores ==
    { <<"[", " ", "]", "+">>,
      <<" ", "*">>,
      <<"(", " ", ")", "+">>,
      <<" ", "|", " ", "a">>,
      <<"(">> }

\* Ordered token type lists.
TokenTypeLists == { <<Id, Plus, Snow>>, <<A, Id, Plus>>, <<Plus, Id>> }

\* Override maps: id = "a+" and snow = the snowman; id = "(a)+", with a
\* capturing group of its own; id = "a*", which matches the empty string;
\* id = "+", which is not a valid pattern.
PatternMaps ==
    { (Id :> <<"a", "+">>) @@ (Snow :> <<Snowman>>),
      (Id :> <<"(", "a", ")", "+">>) @@ (Snow :> <<Snowman>>),
      (Id :> <<"a", "*">>) @@ (Snow :> <<Snowman>>),
      (Id :> <<"+">>) }

RECURSIVE TextsOfLen(_)
TextsOfLen(n) ==
    IF n = 0 THEN { <<>> }
    ELSE {Append(s, c) : s \in TextsOfLen(n - 1), c \in SourceChars}

\* The source texts of at most MaxLen characters.
Sources == UNION {TextsOfLen(n) : n \in 0..MaxLen}

\* The longest source of a scan that shares the Tokenizer with another.
SharedLen == 1

\* The source texts of scans that share the Tokenizer.
SharedSources == UNION {TextsOfLen(n) : n \in 0..SharedLen}

\* ---------------------------------------------------------------- state

VARIABLES
    pc,            \* "new", "idle", "tokenize", "next", "done" or "aborted"
    ignore,        \* new's argument ignore
    patterns,      \* new's argument patterns
    token_types,   \* Tokenizer.token_types
    regex,         \* Tokenizer.regex
    op,            \* the public operation under way: "next" or "tokenize"
    source,        \* the call's argument source
    start_offset,  \* the call's argument offset
    offset,        \* next's local offset
    last_end,      \* tokenize's local last_end
    tokens,        \* tokenize's local tokens
    spans,         \* what the call has consumed so far, in scan order
    result,        \* what the call returned
    parked         \* the locals of a second scan of the same Tokenizer,
                   \* while the scheduler runs the first; Alone without one

vars ==
    <<pc, ignore, patterns, token_types, regex, op, source, start_offset,
      offset, last_end, tokens, spans, result, parked>>

tokenizer == <<token_types, regex>>
config == <<ignore, patterns>>
call == <<op, source, start_offset>>

NoRegex == [ok |-> FALSE, node |-> <<"empty">>, groups |-> 0]
Pending == [kind |-> "pending"]
Alone == [pc |-> "none"]

Init ==
    /\ pc = "new"
    /\ ignore \in Ignores
    /\ patterns \in PatternMaps
    /\ token_types \in TokenTypeLists
    /\ regex = NoRegex
    /\ op = "none"
    /\ source = <<>>
    /\ start_offset = 0
    /\ offset = 0
    /\ last_end = 0
    /\ tokens = <<>>
    /\ spans = <<>>
    /\ result = Pending
    /\ parked = Alone

\* ------------------------------------------------------- Tokenizer::new

\* Tokenizer::new: the expression is built and compiled; unwrap() panics on
\* a pattern the regex crate rejects.
New ==
    /\ pc = "new"
    /\ LET re == BuildRegexString(ignore, patterns, token_types)
           compiled == RegexNew(re)
       IN  IF compiled.ok
           THEN /\ regex' = compiled
                /\ pc' = "idle"
                /\ result' = result
           ELSE /\ regex' = regex
                /\ pc' = "aborted"
                /\ result' = [kind |-> "panic", at |-> "new"]
    /\ UNCHANGED <<config, token_types, call, offset, last_end, tokens, spans,
                 parked>>

\* ---------------------------------------------------------- the scanner

\* Option<usize>::None of index_of_not_undefined.
None == -1

\* IndexOfNotUndefined skipping one group too many.
IndexAfter(m, index) ==
    LET some == {i \in (index + 1)..Len(m.groups) : m.groups[i] # <<>>}
    IN  IF some = {} THEN None
        ELSE CHOOSE i \in some : \A j \in some : i <= j

\* index_of_not_undefined(captures, index): the first group from index on
\* that participated in the match; group 0, the whole match, always did.
IndexOfNotUndefined(m, index) ==
    LET some == {i \in index..Len(m.groups) : i = 0 \/ m.groups[i] # <<>>}
    IN  IF some = {} THEN None
        ELSE CHOOSE i \in some : \A j \in some : i <= j

\* format!("unexpected EOF for {} at {}", &source, &source[offset..])
SyntaxErrorMessage(src, rest) ==
    <<"u", "n", "e", "x", "p", "e", "c", "t", "e", "d", " ", "E", "O", "F",
      " ", "f", "o", "r", " ">> \o src \o <<" ", "a", "t", " ">> \o rest

\* SyntaxError with the text from the caller's offset on, not from the
\* unmatched position on.
SyntaxErrorAtCallOffset(src, off) ==
    [kind |-> "SyntaxError",
     msg |-> SyntaxErrorMessage(src, SliceFrom(src, start_offset))]

\* Err(Error::SyntaxError(..)) of next.
SyntaxError(src, off) ==
    [kind |-> "SyntaxError",
     msg |-> SyntaxErrorMessage(src, SliceFrom(src, off))]

\* One pass of next's loop, to the match: &source[offset..] panics off a
\* character boundary, and otherwise m is regex.captures(&source[offset..]).
Attempt(src, off) ==
    IF IsCharBoundary(src, off)
    THEN [sliced |-> TRUE, rest |-> SliceFrom(src, off),
          m |-> Captures(regex, SliceFrom(src, off))]
    ELSE [sliced |-> FALSE, rest |-> <<>>, m |-> [matched |-> FALSE]]

\* MakeToken with start taken after offset += end, end not subtracted.
MakeTokenStartAfter(m, i, off) ==
    [token_type |-> token_types[i - 1],
     value |-> Slice(SliceFrom(source, off), m.groups[i][1], m.groups[i][2]),
     start |-> off + m.end,
     end |-> off + m.end]

\* MakeToken with end where start is.
MakeTokenEndBefore(m, i, off) ==
    [token_type |-> token_types[i - 1],
     value |-> Slice(SliceFrom(source, off), m.groups[i][1], m.groups[i][2]),
     start |-> (off + m.end) - m.end,
     end |-> off]

\* The Token next builds from match m, offset being the offset before it.
MakeToken(m, i, off) ==
    [token_type |-> token_types[i - 1],
     value |-> Slice(SliceFrom(source, off), m.groups[i][1], m.groups[i][2]),
     start |-> (off + m.end) - m.end,
     end |-> off + m.end]

\* The sources callers pass.
CallSources == IF parked = Alone THEN Sources ELSE SharedSources

\* A caller can pass any source and any offset into it.
CallNext ==
    /\ pc = "idle"
    /\ \E src \in CallSources : \E off \in 0..ByteLen(src) :
          /\ op' = "next"
          /\ source' = src
          /\ start_offset' = off
          /\ offset' = off
          /\ last_end' = 0
          /\ tokens' = <<>>
          /\ spans' = <<>>
          /\ result' = Pending
          /\ pc' = "next"
          /\ UNCHANGED <<config, tokenizer, parked>>

\* tokenize, to its loop: last_end = offset, tokens = vec![].
CallTokenize ==
    /\ pc = "idle"
    /\ \E src \in CallSources : \E off \in 0..ByteLen(src) :
          /\ op' = "tokenize"
          /\ source' = src
          /\ start_offset' = off
          /\ offset' = off
          /\ last_end' = off
          /\ tokens' = <<>>
          /\ spans' = <<>>
          /\ result' = Pending
          /\ pc' = "tokenize"
          /\ UNCHANGED <<config, tokenizer, parked>>

\* tokenize's loop calls self.next(source, last_end).
TokenizeLoop ==
    /\ pc = "tokenize"
    /\ offset' = last_end
    /\ pc' = "next"
    /\ UNCHANGED <<config, tokenizer, call, last_end, tokens, spans, result,
                   parked>>

\* Return with a SyntaxError inside tokenize ending the scan with the tokens
\* collected so far.
ReturnPartial(r) ==
    IF op = "next"
    THEN /\ result' = r
         /\ pc' = "done"
         /\ UNCHANGED <<last_end, tokens>>
    ELSE IF r.kind = "Some"
    THEN /\ last_end' = r.token.end
         /\ tokens' = Append(tokens, r.token)
         /\ pc' = "tokenize"
         /\ result' = result
    ELSE /\ result' = [kind |-> "Tokens", tokens |-> tokens]
         /\ pc' = "done"
         /\ UNCHANGED <<last_end, tokens>>

\* Return pushing Some(t) at the front of tokens.
ReturnPrepend(r) ==
    IF op = "next" \/ r.kind = "SyntaxError"
    THEN /\ result' = r
         /\ pc' = "done"
         /\ UNCHANGED <<last_end, tokens>>
    ELSE IF r.kind = "Some"
    THEN /\ last_end' = r.token.end
         /\ tokens' = <<r.token>> \o tokens
         /\ pc' = "tokenize"
         /\ result' = result
    ELSE /\ result' = [kind |-> "Tokens", tokens |-> tokens]
         /\ pc' = "done"
         /\ UNCHANGED <<last_end, tokens>>

\* next returns r: to the caller when next was called, and into tokenize's
\* match on it otherwise: an Err leaves tokenize by '?', Some(t) is pushed
\* and None returns the tokens.
Return(r) ==
    IF op = "next" \/ r.kind = "SyntaxError"
    THEN /\ result' = r
         /\ pc' = "done"
         /\ UNCHANGED <<last_end, tokens>>
    ELSE IF r.kind = "Some"
    THEN /\ last_end' = r.token.end
         /\ tokens' = Append(tokens, r.token)
         /\ pc' = "tokenize"
         /\ result' = result
    ELSE /\ result' = [kind |-> "Tokens", tokens |-> tokens]
         /\ pc' = "done"
         /\ UNCHANGED <<last_end, tokens>>

\* A panic of next: &source[offset..] off a character boundary, unwrap() of
\* a None index, or token_types[i - 2] out of bounds.
Panics(a) ==
    IF ~a.sliced THEN TRUE
    ELSE IF ~a.m.matched THEN FALSE
    ELSE \/ IndexOfNotUndefined(a.m, 1) = None
         \/ /\ IndexOfNotUndefined(a.m, 1) # 1
            /\ IndexOfNotUndefined(a.m, 1) - 2 >= Len(token_types)

NextPanic ==
    /\ pc = "next"
    /\ \E a \in {Attempt(source, offset)} :
          /\ Panics(a)
          /\ pc' = "aborted"
          /\ result' = [kind |-> "panic", at |-> "next"]
          /\ UNCHANGED <<config, tokenizer, call, offset, last_end, tokens,
                         spans, parked>>

\* No match, but there's input left.
NextSyntaxError ==
    /\ pc = "next"
    /\ \E a \in {Attempt(source, offset)} :
          /\ ~Panics(a)
          /\ ~a.m.matched
          /\ a.rest # <<>>
          /\ Return(SyntaxError(source, offset))
          /\ UNCHANGED <<config, tokenizer, call, offset, spans, parked>>

\* No match and the whole string is parsed.
NextNone ==
    /\ pc = "next"
    /\ \E a \in {Attempt(source, offset)} :
          /\ ~Panics(a)
          /\ ~a.m.matched
          /\ a.rest = <<>>
          /\ Return([kind |-> "None"])
          /\ UNCHANGED <<config, tokenizer, call, offset, spans, parked>>

\* An ignored expression matched: the loop goes on after it.
NextIgnore ==
    /\ pc = "next"
    /\ \E a \in {Attempt(source, offset)} :
          /\ ~Panics(a)
          /\ a.m.matched
          /\ IndexOfNotUndefined(a.m, 1) = 1
          /\ Len(spans) < MaxSpans
          /\ offset' = offset + a.m.end
          /\ spans' = Append(spans, [kind |-> "ignore", start |-> offset,
                                     end |-> offset + a.m.end])
          /\ UNCHANGED <<pc, config, tokenizer, call, last_end, tokens, result,
                         parked>>

\* A token type's expression matched: the token is returned.
NextToken ==
    /\ pc = "next"
    /\ \E a \in {Attempt(source, offset)} :
          /\ ~Panics(a)
          /\ a.m.matched
          /\ IndexOfNotUndefined(a.m, 1) # 1
          /\ Len(spans) < MaxSpans
          /\ offset' = offset + a.m.end
          /\ spans' = Append(spans, [kind |-> "token", start |-> offset,
                                     end |-> offset + a.m.end])
          /\ Return([kind |-> "Some",
                     token |-> MakeToken(a.m, IndexOfNotUndefined(a.m, 1),
                                         offset)])
          /\ UNCHANGED <<config, tokenizer, call, parked>>

\* The caller takes the result; the Tokenizer can be called again.
Finish ==
    /\ pc = "done"
    /\ pc' = "idle"
    /\ op' = "none"
    /\ source' = <<>>
    /\ start_offset' = 0
    /\ offset' = 0
    /\ last_end' = 0
    /\ tokens' = <<>>
    /\ spans' = <<>>
    /\ result' = Pending
    /\ UNCHANGED <<config, tokenizer, parked>>

Next ==
    \/ New
    \/ CallNext
    \/ CallTokenize
    \/ TokenizeLoop
    \/ NextPanic
    \/ NextSyntaxError
    \/ NextNone
    \/ NextIgnore
    \/ NextToken
    \/ Finish

Spec == Init /\ [][Next]_vars


\* ------------------------------------------ scans sharing one Tokenizer

\* The locals of the scan that is running: next and tokenize take &self and
\* keep offset, last_end and tokens on their own stack.
Locals ==
    [pc |-> pc, op |-> op, source |-> source, start_offset |-> start_offset,
     offset |-> offset, last_end |-> last_end, tokens |-> tokens,
     spans |-> spans, result |-> result]

\* A thread that has not called the Tokenizer yet.
Idle ==
    [pc |-> "idle", op |-> "none", source |-> <<>>, start_offset |-> 0,
     offset |-> 0, last_end |-> 0, tokens |-> <<>>, spans |-> <<>>,
     result |-> Pending]

\* Resumed with the cursor of the scan that ran last, as if offset were a
\* field of the Tokenizer.
ResumedAtSharedCursor == [parked EXCEPT !.offset = offset]

\* The locals a scan has when the scheduler resumes it: its own.
Resumed == parked

\* A Tokenizer shared by two threads: the tests' ignore pattern and the
\* token types a, id and +, which leave the snowman unmatched, under each of
\* the override maps.
InitShared ==
    /\ pc = "new"
    /\ ignore = <<"[", " ", "]", "+">>
    /\ patterns \in PatternMaps
    /\ token_types = <<A, Id, Plus>>
    /\ regex = NoRegex
    /\ op = "none"
    /\ source = <<>>
    /\ start_offset = 0
    /\ offset = 0
    /\ last_end = 0
    /\ tokens = <<>>
    /\ spans = <<>>
    /\ result = Pending
    /\ parked = Idle

\* The scheduler takes the running scan off and resumes the other one; the
\* Tokenizer is the one thing the two have in common.
Switch ==
    /\ parked # Alone
    /\ regex.ok
    /\ parked' = Locals
    /\ pc' = Resumed.pc
    /\ op' = Resumed.op
    /\ source' = Resumed.source
    /\ start_offset' = Resumed.start_offset
    /\ offset' = Resumed.offset
    /\ last_end' = Resumed.last_end
    /\ tokens' = Resumed.tokens
    /\ spans' = Resumed.spans
    /\ result' = Resumed.result
    /\ UNCHANGED <<config, tokenizer>>

NextShared ==
    \/ Next
    \/ Switch

SpecShared == InitShared /\ [][NextShared]_vars

\* ================================================================ claims

\* The tokens a finished call returned.
Returned ==
    IF pc # "done" THEN <<>>
    ELSE IF result.kind = "Some" THEN <<result.token>>
    ELSE IF result.kind = "Tokens" THEN result.tokens
    ELSE <<>>

\* The spans of kind k among the recorded ones, in scan order.
SpansOfKind(k) == SelectSeq(spans, LAMBDA sp : sp.kind = k)

\* Where the recorded spans end: the end of the last match.
EndOfLastMatch ==
    IF spans = <<>> THEN start_offset ELSE spans[Len(spans)].end

\* -------------------------------------------------------------------- C1
\* C1 (tiling): when tokenize succeeds, the spans of the returned tokens
\* and the ignore spans skipped inside next cover [start_offset,
\* end_of_last_match) exactly, every byte once; consecutive tokens do not
\* overlap, and every byte between them lies in a skipped ignore match.
C1_Tiling ==
    (pc = "done" /\ op = "tokenize" /\ result.kind = "Tokens") =>
        LET toks == result.tokens
            skipped == SpansOfKind("ignore")
            covering(b) ==
                {k \in 1..Len(toks) : toks[k].start <= b /\ b < toks[k].end}
            skipping(b) ==
                {k \in 1..Len(skipped) :
                    skipped[k].start <= b /\ b < skipped[k].end}
        IN  /\ \A b \in start_offset..(EndOfLastMatch - 1) :
                 Cardinality(covering(b)) + Cardinality(skipping(b)) = 1
            /\ \A k \in 1..Len(toks) :
                 /\ start_offset <= toks[k].start
                 /\ toks[k].start <= toks[k].end
                 /\ toks[k].end <= EndOfLastMatch
            /\ \A k \in 1..Len(skipped) :
                 /\ start_offset <= skipped[k].start
                 /\ skipped[k].end <= EndOfLastMatch
            /\ \A k \in 1..(Len(toks) - 1) :
                 /\ toks[k].end <= toks[k + 1].start
                 /\ \A b \in toks[k].end..(toks[k + 1].start - 1) :
                      skipping(b) # {}

\* A successful tokenize that returned two tokens with ignored text between
\* them.
C1_Witness ==
    /\ pc = "done" /\ op = "tokenize" /\ result.kind = "Tokens"
    /\ Len(result.tokens) = 2
    /\ result.tokens[1].end < result.tokens[2].start

\* -------------------------------------------------------------------- C2
\* A pattern the regex crate accepts.
ValidPattern(p) == RegexNew(p).ok

\* The ignore pattern, every override and the assembled expression are
\* valid patterns.
ValidConfiguration ==
    /\ ValidPattern(ignore)
    /\ \A t \in DOMAIN patterns : ValidPattern(patterns[t])
    /\ ValidPattern(BuildRegexString(ignore, patterns, token_types))

\* C2 (construction is fallible, not aborting): when the ignore pattern, an
\* override or the assembled expression is not a valid pattern, new fails
\* with a ConfigurationError returned to the caller, yields no usable
\* Tokenizer and does not abort.
C2_ConstructionIsFallible ==
    (pc # "new" /\ ~ValidConfiguration) =>
        /\ pc # "aborted"
        /\ result.kind = "ConfigurationError"
        /\ regex = NoRegex

\* -------------------------------------------------------------------- C3
\* The pattern of alternative k: the ignore pattern for 0, and for k >= 1
\* that of the k-th token type, its override or else its escaped name.
AlternativePattern(k) ==
    IF k = 0 THEN ignore
    ELSE IF token_types[k] \in DOMAIN patterns THEN patterns[token_types[k]]
    ELSE Escape(token_types[k])

\* Pattern p on its own, anchored at the start of the text.
Anchored(p) == RegexNew(<<"^", "(", "?", ":">> \o p \o <<")">>)

\* The match of alternative k alone at the start of hay.
AlternativeMatch(k, hay) == Captures(Anchored(AlternativePattern(k)), hay)

\* The alternatives that match at the start of hay, each taken alone.
MatchingAlternatives(hay) ==
    {k \in 0..Len(token_types) : AlternativeMatch(k, hay).matched}

\* Where next's scan stood after the ignore matches it skipped.
Cursor ==
    IF SpansOfKind("ignore") = <<>> THEN start_offset
    ELSE SpansOfKind("ignore")[Len(SpansOfKind("ignore"))].end

\* The recorded ignore spans are matches of the ignore pattern, one after
\* the other from start_offset on.
SkippedAreIgnoreMatches ==
    LET skipped == SpansOfKind("ignore") IN
    \A k \in 1..Len(skipped) :
        /\ skipped[k].start =
               (IF k = 1 THEN start_offset ELSE skipped[k - 1].end)
        /\ AlternativeMatch(0, SliceFrom(source, skipped[k].start)).matched
        /\ skipped[k].end = skipped[k].start
               + AlternativeMatch(0, SliceFrom(source, skipped[k].start)).end

\* C3, as the claim states it: a SyntaxError carries the offset of the
\* unmatched position.
C3_ErrorCarriesOffset ==
    (pc = "done" /\ result.kind = "SyntaxError") =>
        ("offset" \in DOMAIN result /\ result.offset = offset)

\* C3, amended: next fails with SyntaxError if and only if, after skipping
\* every leading ignore match from offset on, no alternative matches at the
\* cursor and the remaining text is not empty; the error carries a message
\* made of the whole source and the remaining text from that unmatched
\* position on (not from the caller's offset), and no offset.
C3_SyntaxErrorIffUnmatched ==
    (pc = "done" /\ op = "next") =>
        LET rest == SliceFrom(source, Cursor) IN
        /\ SkippedAreIgnoreMatches
        /\ 0 \notin MatchingAlternatives(rest)
        /\ (result.kind = "SyntaxError") <=>
               (MatchingAlternatives(rest) = {} /\ rest # <<>>)
        /\ (result.kind = "SyntaxError") =>
               /\ DOMAIN result = {"kind", "msg"}
               /\ result.msg = SyntaxErrorMessage(source, rest)
               /\ offset = Cursor

\* next failed with SyntaxError after it had skipped ignored text.
C3_Witness ==
    /\ pc = "done" /\ op = "next" /\ result.kind = "SyntaxError"
    /\ SpansOfKind("ignore") # <<>>
    /\ Cursor > start_offset

\* -------------------------------------------------------------------- C4
\* C4 (fail-fast): a tokenize whose last single-step match found input left
\* and no match returns exactly the SyntaxError next raises at that
\* position, with none of the tokens collected before it; a token sequence
\* is returned only when the scan reached the end of the source.
C4_FailFast ==
    (pc = "done" /\ op = "tokenize") =>
        LET a == Attempt(source, offset) IN
        IF ~a.m.matched /\ a.rest # <<>>
        THEN /\ result = SyntaxError(source, offset)
             /\ DOMAIN result = {"kind", "msg"}
        ELSE /\ result.kind = "Tokens"
             /\ result.tokens = tokens
             /\ offset = ByteLen(source)

\* tokenize returned a SyntaxError after it had collected tokens.
C4_Witness ==
    /\ pc = "done" /\ op = "tokenize" /\ result.kind = "SyntaxError"
    /\ tokens # <<>>

\* -------------------------------------------------------------------- C5
\* The lowest-indexed alternative that matches at the start of hay.
FirstMatching(hay) ==
    CHOOSE k \in MatchingAlternatives(hay) :
        \A j \in MatchingAlternatives(hay) : k <= j

\* C5 (leftmost-first precedence): at a scan step the lowest-indexed
\* alternative that matches at the cursor is chosen, whatever a later one
\* would match: text is skipped exactly where the ignore pattern matches, a
\* token is as long as the match of the first matching token type, and when
\* several token types match, the name of the earliest is reported.
C5_LeftmostFirst ==
    (pc = "done" /\ op = "next" /\ result.kind = "Some") =>
        LET rest == SliceFrom(source, Cursor) IN
        /\ SkippedAreIgnoreMatches
        /\ MatchingAlternatives(rest) # {}
        /\ FirstMatching(rest) # 0
        /\ result.token.start = Cursor
        /\ result.token.end =
               Cursor + AlternativeMatch(FirstMatching(rest), rest).end
        /\ Cardinality(MatchingAlternatives(rest)) >= 2 =>
               result.token.token_type = token_types[FirstMatching(rest)]

\* -------------------------------------------------------------------- C6
RECURSIVE GroupIndices(_)
\* The capture indices of the groups that wrap the alternatives of the
\* compiled alternation, in order: the ignore alternative's first.
GroupIndices(node) ==
    IF node[1] = "alt" THEN <<node[2][2]>> \o GroupIndices(node[3])
    ELSE <<node[2]>>

\* The position of the alternative that produced match m: 0 for the ignore
\* alternative, k for that of the k-th token type.
ProducingAlternative(m) ==
    LET wraps == GroupIndices(regex.node[3])
    IN  (CHOOSE k \in 1..Len(wraps) : m.groups[wraps[k]] # <<>>) - 1

\* C6 (token construction): a token next emits has the name of the k-th
\* token type, k being the position of the alternative that produced the
\* match, starts at the cursor before the match, ends the match's length
\* after it, and its value is source[start..end].
C6_TokenConstruction ==
    (pc = "done" /\ op = "next" /\ result.kind = "Some") =>
        LET m == Captures(regex, SliceFrom(source, Cursor))
            t == result.token
        IN  /\ m.matched
            /\ t.token_type = token_types[ProducingAlternative(m)]
            /\ t.start = Cursor
            /\ t.end = t.start + m.end
            /\ t.value = Slice(source, t.start, t.end)

\* -------------------------------------------------------------------- C7
\* C7 (SyntaxError is the only scan-time failure): a call of next or
\* tokenize with an offset from 0 to the length of the source returns a
\* token, no-more-tokens or a token sequence, or fails with SyntaxError; it
\* does not fail or abort otherwise.
C7_OnlySyntaxError ==
    (op \in {"next", "tokenize"} /\ start_offset \in 0..ByteLen(source)) =>
        /\ pc # "aborted"
        /\ result.kind \in {"pending", "Some", "None", "Tokens", "SyntaxError"}

\* -------------------------------------------------------------------- C8
\* C8 (offsets are byte positions): the start of an emitted token is the
\* number of bytes of the source before its value and end - start is the
\* number of bytes of the value, so a token that covers the snowman is 3
\* long and what follows it is shifted by 3, not by 1.
C8_ByteOffsets ==
    \A n \in 1..Len(Returned) :
        LET t == Returned[n] IN
        /\ t.end - t.start = ByteLen(t.value)
        /\ \E k \in 0..Len(source) :
             /\ t.start = ByteLen(SubSeq(source, 1, k))
             /\ t.value = SubSeq(source, k + 1, k + Len(t.value))
        /\ t.value = <<Snowman>> => t.end - t.start = 3

\* tokenize returned a snowman token and, right after it, another token.
C8_Witness ==
    /\ pc = "done" /\ op = "tokenize" /\ result.kind = "Tokens"
    /\ Len(result.tokens) >= 2
    /\ result.tokens[1].value = <<Snowman>>
    /\ result.tokens[1].start = 0
    /\ result.tokens[1].end = 3
    /\ result.tokens[2].start = 3

\* -------------------------------------------------------------------- C9
\* Pattern p matches the whole of text.
FullMatch(p, text) ==
    LET ways == Match(Anchored(p).node, text, 1,
                      NoCaptures(Anchored(p).groups))
    IN  \E n \in 1..Len(ways) : ways[n][1] = Len(text) + 1

RECURSIVE IgnorableText(_)
\* s consists only of text that matches the ignore pattern: it is a
\* sequence of pieces, each matched by the ignore pattern as a whole.
IgnorableText(s) ==
    \/ s = <<>>
    \/ \E k \in 1..Len(s) :
          /\ FullMatch(ignore, SubSeq(s, 1, k))
          /\ IgnorableText(SubSeq(s, k + 1, Len(s)))

RECURSIVE ConsumedByIgnore(_)
\* The matches of the ignore pattern, each taken at the end of the one
\* before and none of them empty, consume s to its end.
ConsumedByIgnore(s) ==
    \/ s = <<>>
    \/ /\ AlternativeMatch(0, s).matched
       /\ AlternativeMatch(0, s).end > 0
       /\ ConsumedByIgnore(SliceFrom(s, AlternativeMatch(0, s).end))

\* The compiled expression matches the empty string: the ignore pattern or
\* a token type's pattern does.
MatchesEmpty == Captures(regex, <<>>).matched

\* C9, as the claim states it: tokenize(source, 0) of a source that consists
\* only of text matching the ignore pattern returns the empty sequence.
C9_AllIgnorable ==
    (pc = "done" /\ op = "tokenize" /\ start_offset = 0
                 /\ IgnorableText(source)) =>
        result = [kind |-> "Tokens", tokens |-> <<>>]

\* C9, amended: when no pattern matches the empty string and successive
\* non-empty matches of the ignore pattern consume the source to its end,
\* every pass of tokenize(source, 0) skips an ignore match or finds the end
\* of the source, no token is collected, nothing fails, and the result is
\* the empty sequence.
C9_ConsumedByIgnore ==
    (op = "tokenize" /\ start_offset = 0 /\ ~MatchesEmpty
                     /\ ConsumedByIgnore(source)) =>
        /\ pc \in {"tokenize", "next", "done"}
        /\ tokens = <<>>
        /\ \A n \in 1..Len(spans) : spans[n].kind = "ignore"
        /\ Len(spans) <= Len(source)
        /\ pc = "next" =>
              LET a == Attempt(source, offset) IN
              /\ ~Panics(a)
              /\ a.m.matched => (IndexOfNotUndefined(a.m, 1) = 1 /\ a.m.end > 0)
              /\ ~a.m.matched => a.rest = <<>>
        /\ pc = "done" => result = [kind |-> "Tokens", tokens |-> <<>>]

\* tokenize returned the empty sequence after it had skipped two ignore
\* matches.
C9_Witness ==
    /\ pc = "done" /\ op = "tokenize" /\ start_offset = 0
    /\ ~MatchesEmpty /\ ConsumedByIgnore(source)
    /\ Len(spans) = 2
    /\ result = [kind |-> "Tokens", tokens |-> <<>>]

\* ------------------------------------------------------------------- C10
\* What a call that found nothing returns: no-more-tokens from next, the
\* empty sequence from tokenize.
Nothing ==
    IF op = "next" THEN [kind |-> "None"]
    ELSE [kind |-> "Tokens", tokens |-> <<>>]

\* C10, as the claim states it: for every configured tokenizer, a call at
\* the end of the source (the empty source at 0, or any source at its
\* length) returns the empty sequence, and next no-more-tokens.
C10_EmptyInput ==
    (pc = "done" /\ start_offset = ByteLen(source)) => result = Nothing

\* C10, amended: for a tokenizer none of whose patterns matches the empty
\* string, a call at the end of the source finds no match and no input
\* left, and returns the empty sequence, next no-more-tokens, not an error.
C10_EmptyInputUnlessEmptyMatch ==
    (op \in {"next", "tokenize"} /\ start_offset = ByteLen(source)
                                 /\ ~MatchesEmpty) =>
        /\ pc \in {"tokenize", "next", "done"}
        /\ spans = <<>>
        /\ tokens = <<>>
        /\ pc = "next" =>
              LET a == Attempt(source, offset) IN
              a.sliced /\ ~a.m.matched /\ a.rest = <<>>
        /\ pc = "done" => result = Nothing

\* tokenize(source, len(source)) of a source that is not empty returned the
\* empty sequence.
C10_Witness ==
    /\ pc = "done" /\ op = "tokenize"
    /\ source # <<>> /\ start_offset = ByteLen(source)
    /\ ~MatchesEmpty
    /\ result = [kind |-> "Tokens", tokens |-> <<>>]

\* ------------------------------------------------------------------- C11
\* A scan that never returns: the cursor is where it was.
Stall == [kind |-> "stall"]

RECURSIVE NextOf(_, _)

\* What next does with attempt a at off, the loop going on at NextOf.
NextOn(src, off, a) ==
    IF Panics(a) THEN [kind |-> "panic", at |-> "next"]
    ELSE IF ~a.m.matched
    THEN IF a.rest # <<>> THEN SyntaxError(src, off) ELSE [kind |-> "None"]
    ELSE IF IndexOfNotUndefined(a.m, 1) # 1
    THEN [kind |-> "Some",
          token |-> MakeToken(a.m, IndexOfNotUndefined(a.m, 1), off)]
    ELSE IF a.m.end = 0 THEN Stall
    ELSE NextOf(src, off + a.m.end)

\* next as a function of the Tokenizer, the source and the offset: what the
\* call returns when nothing else runs.
NextOf(src, off) == NextOn(src, off, Attempt(src, off))

RECURSIVE TokenizeOf(_, _, _)

\* What tokenize does with next's result r, the loop going on at TokenizeOf.
TokenizeOn(src, toks, r) ==
    IF r.kind = "None" THEN [kind |-> "Tokens", tokens |-> toks]
    ELSE IF r.kind # "Some" THEN r
    ELSE IF r.token.end = r.token.start THEN Stall
    ELSE TokenizeOf(src, r.token.end, Append(toks, r.token))

\* tokenize as a function of the Tokenizer, the source and the offset, toks
\* being the tokens collected before last.
TokenizeOf(src, last, toks) == TokenizeOn(src, toks, NextOf(src, last))

\* What the running call returns when it runs alone.
ResultAlone ==
    IF op = "next" THEN NextOf(source, start_offset)
    ELSE TokenizeOf(source, start_offset, <<>>)

\* A scan that has ended, by a return or by a panic, has the result it has
\* when it runs alone.
ResultAsAlone ==
    (op \in {"next", "tokenize"} /\ pc \in {"done", "aborted"}) =>
        result = ResultAlone

\* C11: no step of next or tokenize changes the Tokenizer (token_types and
\* the compiled expression), and under every interleaving of two scans that
\* share it, over the same or different sources, each scan ends with the
\* result it has running alone, a function of (matcher, source, offset).
C11_SharedImmutable ==
    /\ []ResultAsAlone
    /\ [][pc # "new" => UNCHANGED tokenizer]_vars

\* A tokenize that returned a token while a scan of another source, taken
\* off by the scheduler after its first match, waits to go on.
C11_Witness ==
    /\ pc = "done" /\ op = "tokenize" /\ result.kind = "Tokens"
    /\ result.tokens # <<>>
    /\ parked # Alone
    /\ parked.pc \in {"next", "tokenize"}
    /\ parked.source # source
    /\ parked.spans # <<>>

\* ------------------------------------------------------------------- C12
\* Some(t) of next.
Some(t) == [kind |-> "Some", token |-> t]

\* Ok(toks) of tokenize.
Tokens(toks) == [kind |-> "Tokens", tokens |-> toks]

\* toks is the chain of next's results from off on: the first is
\* next(src, off), each further one is next at the end of the one before,
\* and next at the end of the last one is no-more-tokens.
IsNextChain(src, off, toks) ==
    /\ \A k \in 1..Len(toks) :
          NextOf(src, IF k = 1 THEN off ELSE toks[k - 1].end) = Some(toks[k])
    /\ NextOf(src, IF toks = <<>> THEN off ELSE toks[Len(toks)].end)
          = [kind |-> "None"]

\* C12: the tokens tokenize(source, start_offset) returns are, in encounter
\* order, t1 = next(source, start_offset) and t(i+1) = next(source, t(i).end)
\* up to the first no-more-tokens result, and for every token t of the
\* result tokenize(source, t.end) returns exactly the tokens after t.
C12_TokenizeIteratesNext ==
    (pc = "done" /\ op = "tokenize" /\ result.kind = "Tokens") =>
        /\ IsNextChain(source, start_offset, result.tokens)
        /\ result = TokenizeOf(source, start_offset, <<>>)
        /\ \A k \in 1..Len(result.tokens) :
              TokenizeOf(source, result.tokens[k].end, <<>>)
                  = Tokens(SubSeq(result.tokens, k + 1, Len(result.tokens)))

\* tokenize returned three tokens.
C12_Witness ==
    /\ pc = "done" /\ op = "tokenize" /\ result.kind = "Tokens"
    /\ Len(result.tokens) = 3

\* ------------------------------------------------------------------- C13
\* The expression new builds from its arguments.
Built == BuildRegexString(ignore, patterns, token_types)

RECURSIVE AlternativeStart(_)
\* Where the "(" of alternative k is in the built expression: after "^(?:"
\* for the ignore pattern, and after the alternative before it, its two
\* parentheses and a "|" for the others.
AlternativeStart(k) ==
    IF k = 0 THEN 5
    ELSE AlternativeStart(k - 1) + Len(AlternativePattern(k - 1)) + 3

\* Alternative k stands in the built expression as "(pattern)", after a "|"
\* when it is not the first.
AlternativeInPlace(k) ==
    /\ k > 0 => Built[AlternativeStart(k) - 1] = "|"
    /\ Built[AlternativeStart(k)] = "("
    /\ SubSeq(Built, AlternativeStart(k) + 1,
              AlternativeStart(k) + Len(AlternativePattern(k)))
          = AlternativePattern(k)
    /\ Built[AlternativeStart(k) + Len(AlternativePattern(k)) + 1] = ")"

\* Pattern p matches the text name and no other text: no character of the
\* name has a special meaning in it.
MatchesLiterally(p, name) ==
    /\ ValidPattern(p)
    /\ \A text \in Sources \cup {name} : FullMatch(p, text) <=> text = name

RECURSIVE ExpectedAlternation(_, _)
\* The alternation of the capturing groups of the alternatives from k on,
\* g being the index of the group of alternative k.
ExpectedAlternation(k, g) ==
    LET r == ParseAlt(AlternativePattern(k), 1, g + 1)
        group == <<"group", g, r.node>>
    IN  IF k = Len(token_types) THEN group
        ELSE <<"alt", group, ExpectedAlternation(k + 1, r.groups)>>

\* C13: for every ignore pattern, override map and token type list the built
\* expression is "^(?:", then "(ignore)", then "|(pattern_k)" for the k-th
\* token type in the order of token_types, then ")", where pattern_k is the
\* override of the type when there is one and otherwise its name escaped so
\* that it matches the name literally; when every pattern is valid on its
\* own the expression compiles to the start anchor followed by the
\* alternation of these groups.
C13_ExpressionShape ==
    (pc # "new" /\ op = "none") =>
        /\ SubSeq(Built, 1, 4) = <<"^", "(", "?", ":">>
        /\ \A k \in 0..Len(token_types) : AlternativeInPlace(k)
        /\ Len(Built) = AlternativeStart(Len(token_types))
                          + Len(AlternativePattern(Len(token_types))) + 2
        /\ Built[Len(Built)] = ")"
        /\ \A k \in 1..Len(token_types) :
              IF token_types[k] \in DOMAIN patterns
              THEN AlternativePattern(k) = patterns[token_types[k]]
              ELSE MatchesLiterally(AlternativePattern(k), token_types[k])
        /\ (\A k \in 0..Len(token_types) : ValidPattern(AlternativePattern(k)))
              => /\ regex.ok
                 /\ regex.node = <<"cat", <<"bol">>, ExpectedAlternation(0, 1)>>

\* new has built and compiled an expression with an override (id), an
\* escaped name (+) and a plain name (a).
C13_Witness ==
    /\ pc = "idle" /\ op = "none" /\ regex.ok
    /\ token_types = <<A, Id, Plus>>
    /\ Id \in DOMAIN patterns

\* ------------------------------------------------------------------- C14
\* The tokens next has emitted in the call under way: those tokenize has
\* collected, and those the call returned.
Emitted == {tokens[k] : k \in 1..Len(tokens)}
               \cup {Returned[k] : k \in 1..Len(Returned)}

\* The ignore alternative has no part in the match that gave token t: its
\* group did not participate, and the ignore pattern alone does not match
\* at the token's start.
NotIgnored(t) ==
    /\ Captures(regex, SliceFrom(source, t.start)).groups[1] = <<>>
    /\ ~AlternativeMatch(0, SliceFrom(source, t.start)).matched

\* C14, as the claim states it: every token emitted by next or tokenize has
\* start < end, and no ignored span is emitted as a token.
C14_NonEmptyTokens ==
    \A t \in Emitted : t.start < t.end /\ NotIgnored(t)

\* C14, amended: every emitted token has start <= end, and start < end when
\* no pattern of the tokenizer matches the empty string; no ignored span is
\* emitted as a token.
C14_NonEmptyUnlessEmptyMatch ==
    \A t \in Emitted :
        /\ t.start <= t.end
        /\ ~MatchesEmpty => t.start < t.end
        /\ NotIgnored(t)

\* tokenize returned a token found after ignored text, with a tokenizer none
\* of whose patterns matches the empty string.
C14_Witness ==
    /\ pc = "done" /\ op = "tokenize" /\ result.kind = "Tokens"
    /\ result.tokens # <<>>
    /\ SpansOfKind("ignore") # <<>>
    /\ ~MatchesEmpty

\* ------------------------------------------------------------------- C15
\* Where the scan is: next's offset inside next, and tokenize's last_end
\* between two calls of next.
ScanCursor == IF pc = "tokenize" THEN last_end ELSE offset

\* The match of the expression at ScanCursor is zero-width and is taken as
\* an ignore match (ignored) or as a token (~ignored).
ZeroWidthAtCursor(ignored) ==
    /\ pc \in {"next", "tokenize"}
    /\ \E a \in {Attempt(source, ScanCursor)} :
          /\ ~Panics(a)
          /\ a.m.matched
          /\ a.m.end = 0
          /\ ignored <=> IndexOfNotUndefined(a.m, 1) = 1

\* A scan at a zero-width match that does not return it: next at a
\* zero-width ignore match, tokenize at a zero-width token.
Stalled ==
    \/ ZeroWidthAtCursor(TRUE)
    \/ op = "tokenize" /\ ZeroWidthAtCursor(FALSE)

\* Span k of the call is a zero-width match that the scan does not return:
\* an ignore match, or a token handed to tokenize.
ZeroWidthTaken(k) ==
    /\ spans[k].start = spans[k].end
    /\ spans[k].kind = "ignore" \/ op = "tokenize"

\* C15: when the match at the cursor is a zero-width match of the ignore
\* pattern or of a token type, the cursor does not advance and the scan
\* never finishes: next loops on a zero-width ignore match, and tokenize is
\* handed a zero-width token at the same offset again and again; nothing
\* ends a scan where the expression has a zero-width match.
C15_ZeroWidthStall ==
    /\ \A k \in 1..Len(spans) :
          ZeroWidthTaken(k) =>
              /\ pc \in {"next", "tokenize"}
              /\ ScanCursor = spans[k].end
              /\ \A j \in k..Len(spans) : spans[j] = spans[k]
              /\ Stalled
    /\ (pc = "done" /\ result.kind # "Some") =>
          ~Attempt(source, offset).m.matched
    /\ (pc = "aborted" /\ op = "tokenize") =>
          \E a \in {Attempt(source, offset)} :
              ~(a.sliced /\ a.m.matched /\ a.m.end = 0)

\* The token types of a valid Tokenizer are as many as its capturing groups
\* after the ignore group: no pattern has a capturing group of its own.
NoNestedGroups == regex.ok => regex.groups = Len(token_types) + 1

\* C15 for patterns without capturing groups of their own.
C15_StallWithoutNestedGroups == NoNestedGroups => C15_ZeroWidthStall

\* tokenize has been handed the same zero-width token twice and is about to
\* call next at the same offset again.
C15_Witness ==
    /\ Stalled
    /\ pc = "tokenize"
    /\ Len(tokens) >= 2
    /\ tokens[1] = tokens[2]
    /\ tokens[1].end = last_end

\* ------------------------------------------------------------------- C16
\* A call under way or ended, of a Tokenizer none of whose patterns can
\* match the empty string.
NoEmptyMatch == op \in {"next", "tokenize"} /\ ~MatchesEmpty

\* Every match step so far moved the cursor forward, the cursor is within
\* the source, and the steps are at most the bytes from start_offset on.
Progressing ==
    /\ \A k \in 1..Len(spans) : spans[k].start < spans[k].end
    /\ offset <= ByteLen(source)
    /\ last_end <= ByteLen(source)
    /\ Len(spans) <= ByteLen(source) - start_offset

\* C16: when no pattern can match the empty string, every loop iteration of
\* next and of tokenize strictly increases the cursor, the cursor never
\* exceeds len(source), and every call returns, a token sequence or a
\* SyntaxError, after at most len(source) - start_offset match steps: it is
\* never cut short by a panic.
C16_Termination ==
    NoEmptyMatch =>
        /\ Progressing
        /\ op = "tokenize" =>
              /\ pc # "aborted"
              /\ pc = "done" => result.kind \in {"Tokens", "SyntaxError"}

\* The call's offset is a character boundary of its source.
BoundaryCall == IsCharBoundary(source, start_offset)

\* C16 for calls at a character boundary and patterns without capturing
\* groups of their own.
C16_TerminationWithoutPanics ==
    (BoundaryCall /\ NoNestedGroups) => C16_Termination

=============================================================================
